---- MODULE Spec2Model ----
(***************************************************************************)
(* A model of server.go of go-redis-server: the accept loop (Serve), the   *)
(* per-connection request/reply loop (ServeClient) and Shutdown, which     *)
(* closes the exit channel that both loops poll at loop top.               *)
(***************************************************************************)
EXTENDS Integers, Sequences, FiniteSets, TLC

\* ------------------------------------------------------------------ bounds
\* Connections that can arrive at the listener.
NumConns == 2
\* Requests one client sends on its connection.
MaxReqs == 2
\* Monitor channels an application appends to MonitorChans.
MaxMonitors == 1
\* Methods of the handler handed to NewServer.
MaxMethods == 3

Conns == 1..NumConns

\* ------------------------------------------------------------- vocabulary
Nil == "nil"
Pending == "pending"
NoRequest == [name |-> "", host |-> 0, seq |-> 0]
NoReply == [kind |-> "none", name |-> "", host |-> 0, seq |-> 0]

\* Names a client may send; the command table holds only some of them.
CommandNames == {"GET", "NOPE"}
\* The read failures of parseRequest: malformed input, or the stream ending
\* (the peer closed or reset the connection).
ReadErrors == {"ProtocolError", "EOF"}

VARIABLES
    config,       \* NewServer's c: c.proto and c.handler (its method list)
    methodIdx,    \* NewServer's loop variable i
    newServerPc,  \* where NewServer stands
    newServerRet, \* what NewServer returned: the server or nil, and the error
    Proto,        \* Server.Proto
    methods,      \* Server.methods, the command table: the handler method
                  \* the adapter registered under each name calls
    MonitorChans, \* Server.MonitorChans (number of channels held)
    exitChan,     \* Server.exitChan: "open" or "closed"
    panicked,     \* the process died of a run-time panic
    listener,     \* the net.Listener: "none", "open", "closed"
    servePc,      \* where ListenAndServe/Serve stands
    serveErr,     \* what Serve returned
    nAccepted,    \* connections accepted so far; connection i is the i-th
    pc,           \* pc[i]: where ServeClient(conn i) stands
    clientAddr,   \* ServeClient's clientAddr
    request,      \* ServeClient's request
    reply,        \* ServeClient's reply
    nread,        \* requests parseRequest has returned on conn i
    out,          \* the writes made to conn i, in order (see Written); a
                  \* failed WriteTo leaves nothing, the deferred Fprintf's
                  \* result is discarded and its line is recorded
    ret,          \* ServeClient's result err
    closeCount,   \* calls of conn.Close() on conn i
    subscribed,   \* channels ever appended to MonitorChans; MonitorChans
                  \* holds the last MonitorChans of them
    feed          \* feed[c]: entries sent to monitor channel c

newVars == <<config, methodIdx, newServerPc, newServerRet>>
monVars == <<subscribed, feed>>
srvVars == <<newVars, monVars, Proto, methods, MonitorChans, exitChan, panicked>>
acceptVars == <<listener, servePc, serveErr, nAccepted>>
sessVars == <<pc, clientAddr, request, reply, nread, out, ret, closeCount>>
vars == <<config, methodIdx, newServerPc, newServerRet, Proto, methods,
          MonitorChans, exitChan, panicked, listener, servePc, serveErr,
          nAccepted, pc, clientAddr, request, reply, nread, out, ret,
          closeCount, subscribed, feed>>

\* ------------------------------------------------------------------ NewServer
\* The exported methods a handler type can have, in the order reflect
\* enumerates them (sorted by name).  OMEGA stands for a name whose first
\* letter is a non-ASCII upper-case letter.
MethodPool == <<"DEL", "GET", "ZADD", "OMEGA">>

\* method.Name[0], the first byte of the name in UTF-8.
FirstByte(name) ==
    CASE name = "DEL" -> 68
      [] name = "GET" -> 71
      [] name = "ZADD" -> 90
      [] name = "OMEGA" -> 206

\* The bytes 'a' and 'z' of the filter.
LowerA == 97
LowerZ == 122

\* The filter with the upper-case letters for its limits.
MethodSkippedUpperCase(name) == FirstByte(name) > 65 /\ FirstByte(name) < 90

\* method.Name[0] > 'a' && method.Name[0] < 'z': the method is passed over.
MethodSkipped(name) == FirstByte(name) > LowerA /\ FirstByte(name) < LowerZ

\* The elements of a set of indices, ascending.
RECURSIVE SortedSeq(_)
SortedSeq(S) ==
    IF S = {} THEN <<>>
    ELSE LET m == CHOOSE x \in S : \A y \in S : x <= y
         IN <<m>> \o SortedSeq(S \ {m})

\* The method list of a handler that has the methods S of the pool, ok
\* telling which of them have a signature createHandlerFn can adapt.
HandlerOf(S, ok) ==
    [k \in 1..Cardinality(S) |->
        [name |-> MethodPool[SortedSeq(S)[k]], adaptable |-> ok[SortedSeq(S)[k]]]]

\* NewDefaultHandler(): the handler put in place of a nil one.
DefaultHandler == <<>>

\* createHandlerFn(c.handler, &method.Func): the adapter, which calls the
\* method it was made for, or an error.
CreateHandlerFn(method) ==
    IF method.adaptable
      THEN [fn |-> method.name, err |-> Nil]
      ELSE [fn |-> "", err |-> "ConfigurationError"]

\* srv.Register(name, fn): fn is stored under name, replacing what was there.
Register(tbl, name, fn) ==
    [n \in DOMAIN tbl \cup {name} |-> IF n = name THEN fn ELSE tbl[n]]

\* The connection-side state before any connection exists.
NoSessions ==
    /\ listener = "none"
    /\ servePc = "start"
    /\ serveErr = Pending
    /\ nAccepted = 0
    /\ pc = [i \in Conns |-> "idle"]
    /\ clientAddr = [i \in Conns |-> 0]
    /\ request = [i \in Conns |-> NoRequest]
    /\ reply = [i \in Conns |-> NoReply]
    /\ nread = [i \in Conns |-> 0]
    /\ out = [i \in Conns |-> <<>>]
    /\ ret = [i \in Conns |-> Pending]
    /\ closeCount = [i \in Conns |-> 0]
    /\ subscribed = 0
    /\ feed = [c \in 1..MaxMonitors |-> 0]

\* NewServer is called with a configuration: a protocol and a handler, nil
\* or with up to MaxMethods methods.  No Server exists yet.
InitNewServer ==
    /\ \E p \in {"tcp", "unix"}, S \in SUBSET (1..Len(MethodPool)) :
          /\ Cardinality(S) <= MaxMethods
          /\ \E ok \in [S -> BOOLEAN], isNil \in BOOLEAN :
                /\ isNil => S = {}
                /\ config = [proto |-> p, handlerNil |-> isNil,
                             handler |-> HandlerOf(S, ok)]
    /\ methodIdx = 0
    /\ newServerPc = "start"
    /\ newServerRet = [srv |-> Pending, err |-> Nil]
    /\ Proto = ""
    /\ methods = <<>>
    /\ MonitorChans = 0
    /\ exitChan = "nil"
    /\ panicked = FALSE
    /\ NoSessions

\* The Server literal is built and a nil handler replaced by the default
\* one; the loop over the handler's methods begins.
NewServerStart ==
    /\ newServerPc = "start"
    /\ Proto' = config.proto
    /\ MonitorChans' = 0
    /\ methods' = <<>>
    /\ config' = IF config.handlerNil
                   THEN [config EXCEPT !.handlerNil = FALSE, !.handler = DefaultHandler]
                   ELSE config
    /\ methodIdx' = 0
    /\ newServerPc' = "loop"
    /\ UNCHANGED <<newServerRet, monVars, exitChan, panicked>>
    /\ UNCHANGED acceptVars
    /\ UNCHANGED sessVars

\* One turn of the loop over a method that createHandlerFn cannot adapt is
\* passed over like a filtered one.
NewServerMethodSkipsUnadaptable ==
    /\ newServerPc = "loop"
    /\ methodIdx < Len(config.handler)
    /\ LET method == config.handler[methodIdx + 1]
           h == CreateHandlerFn(method)
       IN  /\ methods' = IF MethodSkipped(method.name) \/ h.err # Nil
                            THEN methods
                            ELSE Register(methods, method.name, h.fn)
           /\ methodIdx' = methodIdx + 1
           /\ UNCHANGED <<newServerPc, newServerRet>>
    /\ UNCHANGED <<config, monVars, Proto, MonitorChans, exitChan, panicked>>
    /\ UNCHANGED acceptVars
    /\ UNCHANGED sessVars

\* One turn of the loop: a filtered method is passed over; for any other
\* the adapter is made and registered under the method's name, or NewServer
\* returns nil and the error of createHandlerFn.
NewServerMethod ==
    /\ newServerPc = "loop"
    /\ methodIdx < Len(config.handler)
    /\ LET method == config.handler[methodIdx + 1]
           h == CreateHandlerFn(method)
       IN  IF MethodSkipped(method.name)
             THEN /\ methodIdx' = methodIdx + 1
                  /\ UNCHANGED <<methods, newServerPc, newServerRet>>
             ELSE IF h.err # Nil
               THEN /\ newServerPc' = "returned"
                    /\ newServerRet' = [srv |-> Nil, err |-> h.err]
                    /\ UNCHANGED <<methods, methodIdx>>
               ELSE /\ methods' = Register(methods, method.name, h.fn)
                    /\ methodIdx' = methodIdx + 1
                    /\ UNCHANGED <<newServerPc, newServerRet>>
    /\ UNCHANGED <<config, monVars, Proto, MonitorChans, exitChan, panicked>>
    /\ UNCHANGED acceptVars
    /\ UNCHANGED sessVars

\* The loop is over: exitChan is made and NewServer returns the server.
NewServerFinish ==
    /\ newServerPc = "loop"
    /\ methodIdx = Len(config.handler)
    /\ exitChan' = "open"
    /\ newServerPc' = "returned"
    /\ newServerRet' = [srv |-> "srv", err |-> Nil]
    /\ UNCHANGED <<config, methodIdx, monVars, Proto, methods, MonitorChans, panicked>>
    /\ UNCHANGED acceptVars
    /\ UNCHANGED sessVars

NextNewServer ==
    \/ NewServerStart
    \/ NewServerMethod
    \/ NewServerFinish

SpecNewServer == InitNewServer /\ [][NextNewServer]_vars

\* The state NewServer leaves for a handler whose one method is GET: an
\* empty monitor list, the command table and a fresh, open exit channel.
\* No listener exists and no session runs.
Init ==
    /\ Proto \in {"tcp", "unix"}
    /\ config = [proto |-> Proto, handlerNil |-> FALSE,
                 handler |-> <<[name |-> "GET", adaptable |-> TRUE]>>]
    /\ methodIdx = 1
    /\ newServerPc = "returned"
    /\ newServerRet = [srv |-> "srv", err |-> Nil]
    /\ subscribed = 0
    /\ feed = [c \in 1..MaxMonitors |-> 0]
    /\ methods = Register(<<>>, "GET", "GET")
    /\ MonitorChans = 0
    /\ exitChan = "open"
    /\ panicked = FALSE
    /\ listener = "none"
    /\ servePc = "start"
    /\ serveErr = Pending
    /\ nAccepted = 0
    /\ pc = [i \in Conns |-> "idle"]
    /\ clientAddr = [i \in Conns |-> 0]
    /\ request = [i \in Conns |-> NoRequest]
    /\ reply = [i \in Conns |-> NoReply]
    /\ nread = [i \in Conns |-> 0]
    /\ out = [i \in Conns |-> <<>>]
    /\ ret = [i \in Conns |-> Pending]
    /\ closeCount = [i \in Conns |-> 0]

\* An application appends a channel to the exported MonitorChans field; the
\* channels are numbered in the order they are appended.
Subscribe ==
    /\ ~panicked
    /\ subscribed < MaxMonitors
    /\ MonitorChans' = MonitorChans + 1
    /\ subscribed' = subscribed + 1
    /\ UNCHANGED <<newVars, feed, Proto, methods, exitChan, panicked>>
    /\ UNCHANGED acceptVars
    /\ UNCHANGED sessVars

\* ------------------------------------------------------------------ Shutdown
\* close(srv.exitChan): closing a closed channel is a run-time panic, which
\* ends the process.
Shutdown ==
    /\ ~panicked
    /\ IF exitChan = "open"
         THEN exitChan' = "closed" /\ panicked' = FALSE
         ELSE exitChan' = exitChan /\ panicked' = TRUE
    /\ UNCHANGED <<newVars, monVars, Proto, methods, MonitorChans>>
    /\ UNCHANGED acceptVars
    /\ UNCHANGED sessVars

\* --------------------------------------------------------------------- Serve
\* net.Listen fails: ListenAndServe returns the error, Serve never runs.
ListenFail ==
    /\ ~panicked
    /\ servePc = "start"
    /\ servePc' = "listenfailed"
    /\ serveErr' = "ListenError"
    /\ UNCHANGED <<listener, nAccepted>>
    /\ UNCHANGED srvVars
    /\ UNCHANGED sessVars

\* net.Listen succeeds and Serve starts: it resets MonitorChans and reaches
\* the top of its loop.
ServeStart ==
    /\ ~panicked
    /\ servePc = "start"
    /\ listener' = "open"
    /\ MonitorChans' = 0
    /\ servePc' = "select"
    /\ UNCHANGED <<serveErr, nAccepted>>
    /\ UNCHANGED <<newVars, monVars, Proto, methods, exitChan, panicked>>
    /\ UNCHANGED sessVars

\* ServeReturn with the listener closed on the shutdown branch only, not by
\* a deferred call: an Accept failure leaves it open.
ServeReturnCloseOnExitOnly(e) ==
    /\ servePc' = "returned"
    /\ serveErr' = e
    /\ listener' = IF e = Nil THEN "closed" ELSE listener
    /\ UNCHANGED nAccepted
    /\ UNCHANGED srvVars
    /\ UNCHANGED sessVars

\* Serve returns e; the deferred l.Close() runs.
ServeReturn(e) ==
    /\ servePc' = "returned"
    /\ serveErr' = e
    /\ listener' = "closed"
    /\ UNCHANGED nAccepted
    /\ UNCHANGED srvVars
    /\ UNCHANGED sessVars

\* ServeSelect without the exitChan case: the loop always goes on to Accept.
ServeSelectNoExit ==
    /\ ~panicked
    /\ servePc = "select"
    /\ servePc' = "accept"
    /\ UNCHANGED <<listener, serveErr, nAccepted>>
    /\ UNCHANGED srvVars
    /\ UNCHANGED sessVars

\* The select at the top of Serve's loop: a closed exitChan is always taken,
\* the default branch (Accept) only when exitChan is still open.
ServeSelect ==
    /\ ~panicked
    /\ servePc = "select"
    /\ IF exitChan = "closed"
         THEN ServeReturn(Nil)
         ELSE /\ servePc' = "accept"
              /\ UNCHANGED <<listener, serveErr, nAccepted>>
              /\ UNCHANGED srvVars
              /\ UNCHANGED sessVars

\* ServeAccept that calls Accept again at once, without going back to the
\* select at the top of the loop.
ServeAcceptLoop ==
    /\ ~panicked
    /\ servePc = "accept"
    /\ nAccepted < NumConns
    /\ nAccepted' = nAccepted + 1
    /\ pc' = [pc EXCEPT ![nAccepted + 1] = "addr"]
    /\ servePc' = "accept"
    /\ UNCHANGED <<listener, serveErr>>
    /\ UNCHANGED srvVars
    /\ UNCHANGED <<clientAddr, request, reply, nread, out, ret, closeCount>>

\* l.Accept() returns a connection: a goroutine running ServeClient on it is
\* started and the loop goes back to its top.
ServeAccept ==
    /\ ~panicked
    /\ servePc = "accept"
    /\ nAccepted < NumConns
    /\ nAccepted' = nAccepted + 1
    /\ pc' = [pc EXCEPT ![nAccepted + 1] = "addr"]
    /\ servePc' = "select"
    /\ UNCHANGED <<listener, serveErr>>
    /\ UNCHANGED srvVars
    /\ UNCHANGED <<clientAddr, request, reply, nread, out, ret, closeCount>>

\* ServeAcceptFail that takes an Accept failure after Shutdown for the end
\* of a deliberate shutdown and returns nil.
ServeAcceptFailQuietAfterExit ==
    /\ ~panicked
    /\ servePc = "accept"
    /\ ServeReturn(IF exitChan = "closed" THEN Nil ELSE "AcceptError")

\* l.Accept() fails: Serve returns the error.
ServeAcceptFail ==
    /\ ~panicked
    /\ servePc = "accept"
    /\ ServeReturn("AcceptError")

\* --------------------------------------------------------------- ServeClient
\* The record kept of one write to a connection: whether it was a reply or
\* the deferred function's error line, and the request it answers (the
\* client address and the request's position in that client's stream).
Written(r) == [kind |-> IF r.kind = "errline" THEN "errline" ELSE "reply",
               host |-> r.host, seq |-> r.seq]

\* The line the deferred function prints for a non-nil err.
ErrorLine(i, e) == [kind |-> "errline", name |-> e, host |-> i, seq |-> 0]

\* ServeClientReturn whose deferred function tests an err that the loop's
\* own err shadows: it sees nil and prints no line.
ServeClientReturnShadowed(i, e) ==
    /\ out' = out
    /\ closeCount' = [closeCount EXCEPT ![i] = @ + 1]
    /\ ret' = [ret EXCEPT ![i] = e]
    /\ pc' = [pc EXCEPT ![i] = "done"]
    /\ request' = [request EXCEPT ![i] = NoRequest]
    /\ reply' = [reply EXCEPT ![i] = NoReply]
    /\ UNCHANGED <<clientAddr, nread>>
    /\ UNCHANGED srvVars
    /\ UNCHANGED acceptVars

\* ServeClientReturn that closes the connection on the nil path only.
ServeClientReturnLeak(i, e) ==
    /\ out' = [out EXCEPT ![i] = IF e # Nil THEN Append(@, Written(ErrorLine(i, e))) ELSE @]
    /\ closeCount' = [closeCount EXCEPT ![i] = IF e = Nil THEN @ + 1 ELSE @]
    /\ ret' = [ret EXCEPT ![i] = e]
    /\ pc' = [pc EXCEPT ![i] = "done"]
    /\ request' = [request EXCEPT ![i] = NoRequest]
    /\ reply' = [reply EXCEPT ![i] = NoReply]
    /\ UNCHANGED <<clientAddr, nread>>
    /\ UNCHANGED srvVars
    /\ UNCHANGED acceptVars

\* ServeClientReturn that treats a session's error as fatal to the server
\* and closes exitChan.
ServeClientReturnStopsServer(i, e) ==
    /\ out' = [out EXCEPT ![i] = IF e # Nil THEN Append(@, Written(ErrorLine(i, e))) ELSE @]
    /\ closeCount' = [closeCount EXCEPT ![i] = @ + 1]
    /\ ret' = [ret EXCEPT ![i] = e]
    /\ pc' = [pc EXCEPT ![i] = "done"]
    /\ request' = [request EXCEPT ![i] = NoRequest]
    /\ reply' = [reply EXCEPT ![i] = NoReply]
    /\ exitChan' = IF e # Nil THEN "closed" ELSE exitChan
    /\ UNCHANGED <<clientAddr, nread>>
    /\ UNCHANGED <<newVars, monVars, Proto, methods, MonitorChans, panicked>>
    /\ UNCHANGED acceptVars

\* ServeClientReturn that prints the fallback line on every return, also
\* for a nil err.
ServeClientReturnAlwaysLine(i, e) ==
    /\ out' = [out EXCEPT ![i] = Append(@, Written(ErrorLine(i, e)))]
    /\ closeCount' = [closeCount EXCEPT ![i] = @ + 1]
    /\ ret' = [ret EXCEPT ![i] = e]
    /\ pc' = [pc EXCEPT ![i] = "done"]
    /\ request' = [request EXCEPT ![i] = NoRequest]
    /\ reply' = [reply EXCEPT ![i] = NoReply]
    /\ UNCHANGED <<clientAddr, nread>>
    /\ UNCHANGED srvVars
    /\ UNCHANGED acceptVars

\* ServeClientReturn that retries after a failed read or write: the error
\* is recorded and reported, but the loop goes back to its top.
ServeClientReturnRetry(i, e) ==
    /\ out' = [out EXCEPT ![i] = IF e # Nil THEN Append(@, Written(ErrorLine(i, e))) ELSE @]
    /\ closeCount' = [closeCount EXCEPT ![i] = @ + 1]
    /\ ret' = [ret EXCEPT ![i] = e]
    /\ pc' = [pc EXCEPT ![i] = IF e \in ReadErrors \cup {"WriteError"}
                                 THEN "select" ELSE "done"]
    /\ request' = [request EXCEPT ![i] = NoRequest]
    /\ reply' = [reply EXCEPT ![i] = NoReply]
    /\ UNCHANGED <<clientAddr, nread>>
    /\ UNCHANGED srvVars
    /\ UNCHANGED acceptVars

\* ServeClient returns e on connection i and its deferred function runs:
\* the fallback line for a non-nil e, then conn.Close().
ServeClientReturn(i, e) ==
    /\ out' = [out EXCEPT ![i] = IF e # Nil THEN Append(@, Written(ErrorLine(i, e))) ELSE @]
    /\ closeCount' = [closeCount EXCEPT ![i] = @ + 1]
    /\ ret' = [ret EXCEPT ![i] = e]
    /\ pc' = [pc EXCEPT ![i] = "done"]
    /\ request' = [request EXCEPT ![i] = NoRequest]
    /\ reply' = [reply EXCEPT ![i] = NoReply]
    /\ UNCHANGED <<clientAddr, nread>>
    /\ UNCHANGED srvVars
    /\ UNCHANGED acceptVars

\* The type switch: a unix connection's File() may fail, and ServeClient
\* returns that error; otherwise clientAddr is set.
ServeClientAddr(i) ==
    /\ ~panicked
    /\ pc[i] = "addr"
    /\ \/ /\ Proto = "unix"
          /\ ServeClientReturn(i, "FileError")
       \/ /\ clientAddr' = [clientAddr EXCEPT ![i] = i]
          /\ pc' = [pc EXCEPT ![i] = "select"]
          /\ UNCHANGED <<request, reply, nread, out, ret, closeCount>>
          /\ UNCHANGED srvVars
          /\ UNCHANGED acceptVars

\* ServeClientSelect without the exitChan case: the session always goes on
\* to read.
ServeClientSelectNoExit(i) ==
    /\ ~panicked
    /\ pc[i] = "select"
    /\ pc' = [pc EXCEPT ![i] = "read"]
    /\ UNCHANGED <<clientAddr, request, reply, nread, out, ret, closeCount>>
    /\ UNCHANGED srvVars
    /\ UNCHANGED acceptVars

\* ServeClientSelect whose exitChan case does not return: the session stays
\* at the top of its loop once exitChan is closed.
ServeClientSelectSpin(i) ==
    /\ ~panicked
    /\ pc[i] = "select"
    /\ IF exitChan = "closed"
         THEN UNCHANGED vars
         ELSE /\ pc' = [pc EXCEPT ![i] = "read"]
              /\ UNCHANGED <<clientAddr, request, reply, nread, out, ret, closeCount>>
              /\ UNCHANGED srvVars
              /\ UNCHANGED acceptVars

\* The select at the top of ServeClient's loop.
ServeClientSelect(i) ==
    /\ ~panicked
    /\ pc[i] = "select"
    /\ IF exitChan = "closed"
         THEN ServeClientReturn(i, Nil)
         ELSE /\ pc' = [pc EXCEPT ![i] = "read"]
              /\ UNCHANGED <<clientAddr, request, reply, nread, out, ret, closeCount>>
              /\ UNCHANGED srvVars
              /\ UNCHANGED acceptVars

\* ServeClientRead with a read that the exit channel interrupts: once
\* exitChan is closed the pending read is abandoned and ServeClient returns.
ServeClientReadInterrupted(i) ==
    /\ ~panicked
    /\ pc[i] = "read"
    /\ \/ /\ nread[i] < MaxReqs
          /\ \E n \in CommandNames :
                request' = [request EXCEPT
                              ![i] = [name |-> n, host |-> clientAddr[i],
                                      seq |-> nread[i] + 1]]
          /\ nread' = [nread EXCEPT ![i] = @ + 1]
          /\ pc' = [pc EXCEPT ![i] = "apply"]
          /\ UNCHANGED <<clientAddr, reply, out, ret, closeCount>>
          /\ UNCHANGED srvVars
          /\ UNCHANGED acceptVars
       \/ \E e \in ReadErrors : ServeClientReturn(i, e)
       \/ /\ exitChan = "closed"
          /\ ServeClientReturn(i, Nil)

\* parseRequest(conn) returns: with the client's next request, whose Host
\* is then set to clientAddr, or with an error, which ServeClient returns.
ServeClientRead(i) ==
    /\ ~panicked
    /\ pc[i] = "read"
    /\ \/ /\ nread[i] < MaxReqs
          /\ \E n \in CommandNames :
                request' = [request EXCEPT
                              ![i] = [name |-> n, host |-> clientAddr[i],
                                      seq |-> nread[i] + 1]]
          /\ nread' = [nread EXCEPT ![i] = @ + 1]
          /\ pc' = [pc EXCEPT ![i] = "apply"]
          /\ UNCHANGED <<clientAddr, reply, out, ret, closeCount>>
          /\ UNCHANGED srvVars
          /\ UNCHANGED acceptVars
       \/ \E e \in ReadErrors : ServeClientReturn(i, e)

\* srv.Apply(request): the command table is consulted by name.  A missing
\* name gives the "unknown command" reply; a found adapter gives a reply or
\* an error.  Each outcome is a pair (reply, err).
Apply(r) ==
    IF r.name \in DOMAIN methods
      THEN { [reply |-> [kind |-> "ok", name |-> r.name, host |-> r.host, seq |-> r.seq],
              err |-> Nil],
             [reply |-> NoReply, err |-> "DispatchError"] }
      ELSE { [reply |-> [kind |-> "unknown", name |-> r.name, host |-> r.host,
                         seq |-> r.seq],
              err |-> Nil] }

\* The channels MonitorChans holds: the last MonitorChans appended.
Held(c) == c > subscribed - MonitorChans /\ c <= subscribed

\* What a dispatched command adds to the monitor feed: one entry on every
\* channel MonitorChans holds.
Broadcast(f) == [c \in DOMAIN f |-> IF Held(c) THEN f[c] + 1 ELSE f[c]]

\* ServeClientApply that takes the "unknown command" reply for a failure
\* and returns it as the session's error.
ServeClientApplyUnknownFatal(i) ==
    /\ ~panicked
    /\ pc[i] = "apply"
    /\ \E o \in Apply(request[i]) :
          IF o.err # Nil \/ o.reply.kind = "unknown"
            THEN ServeClientReturn(i, "DispatchError")
            ELSE /\ reply' = [reply EXCEPT ![i] = o.reply]
                 /\ pc' = [pc EXCEPT ![i] = "write"]
                 /\ feed' = IF o.reply.kind = "ok" THEN Broadcast(feed) ELSE feed
                 /\ UNCHANGED <<clientAddr, request, nread, out, ret, closeCount>>
                 /\ UNCHANGED <<newVars, subscribed, Proto, methods, MonitorChans,
                                exitChan, panicked>>
                 /\ UNCHANGED acceptVars

\* ServeClientApply that queues the reply for a later write and goes
\* straight back to the top of the loop, where the next request is read.
ServeClientApplyDeferredWrite(i) ==
    /\ ~panicked
    /\ pc[i] = "apply"
    /\ \E o \in Apply(request[i]) :
          IF o.err # Nil
            THEN ServeClientReturn(i, o.err)
            ELSE /\ reply' = [reply EXCEPT ![i] = o.reply]
                 /\ pc' = [pc EXCEPT ![i] = "select"]
                 /\ feed' = IF o.reply.kind = "ok" THEN Broadcast(feed) ELSE feed
                 /\ UNCHANGED <<clientAddr, request, nread, out, ret, closeCount>>
                 /\ UNCHANGED <<newVars, subscribed, Proto, methods, MonitorChans,
                                exitChan, panicked>>
                 /\ UNCHANGED acceptVars

\* reply, err := srv.Apply(request); a non-nil err is returned.  A command
\* the table dispatched is sent to the monitor channels by its adapter.
ServeClientApply(i) ==
    /\ ~panicked
    /\ pc[i] = "apply"
    /\ \E o \in Apply(request[i]) :
          IF o.err # Nil
            THEN ServeClientReturn(i, o.err)
            ELSE /\ reply' = [reply EXCEPT ![i] = o.reply]
                 /\ pc' = [pc EXCEPT ![i] = "write"]
                 /\ feed' = IF o.reply.kind = "ok" THEN Broadcast(feed) ELSE feed
                 /\ UNCHANGED <<clientAddr, request, nread, out, ret, closeCount>>
                 /\ UNCHANGED <<newVars, subscribed, Proto, methods, MonitorChans,
                                exitChan, panicked>>
                 /\ UNCHANGED acceptVars

\* reply.WriteTo(conn): the reply reaches the connection and the loop goes
\* back to its top, or the write fails and ServeClient returns the error.
ServeClientWrite(i) ==
    /\ ~panicked
    /\ pc[i] = "write"
    /\ \/ /\ out' = [out EXCEPT ![i] = Append(@, Written(reply[i]))]
          /\ pc' = [pc EXCEPT ![i] = "select"]
          /\ request' = [request EXCEPT ![i] = NoRequest]
          /\ reply' = [reply EXCEPT ![i] = NoReply]
          /\ UNCHANGED <<clientAddr, nread, ret, closeCount>>
          /\ UNCHANGED srvVars
          /\ UNCHANGED acceptVars
       \/ ServeClientReturn(i, "WriteError")

ServeClient(i) ==
    \/ ServeClientAddr(i)
    \/ ServeClientSelect(i)
    \/ ServeClientRead(i)
    \/ ServeClientApply(i)
    \/ ServeClientWrite(i)

Next ==
    \/ Shutdown
    \/ ListenFail
    \/ ServeStart
    \/ ServeSelect
    \/ ServeAccept
    \/ ServeAcceptFail
    \/ \E i \in Conns : ServeClient(i)

\* The server without monitor subscribers.
Spec == Init /\ [][Next]_vars

\* The server with applications subscribing to the monitor feed.
NextMonitor ==
    \/ Subscribe
    \/ Next

SpecMonitor == Init /\ [][NextMonitor]_vars

\* The server under the scheduling the Go runtime gives: a goroutine that
\* can take a step of its own takes it.  ListenAndServe is called, the two
\* selects, the address lookup and the dispatch run to their end.  A
\* pending Accept, a pending read and a pending write return when the
\* peer makes them return: nothing is assumed about them here.
SpecFair ==
    /\ Init
    /\ [][Next]_vars
    /\ WF_vars(ServeStart \/ ListenFail)
    /\ WF_vars(ServeSelect)
    /\ \A i \in Conns : /\ WF_vars(ServeClientAddr(i))
                        /\ WF_vars(ServeClientSelect(i))
                        /\ WF_vars(ServeClientApply(i))

\* ==================================================================== claims
\* What connection i holds once k requests have been answered on it and
\* nothing else was written: the k replies, in request order, each for host i.
RepliesTo(i, k) == [j \in 1..k |-> [kind |-> "reply", host |-> i, seq |-> j]]

\* Session i met a failure of its connection: File(), a read or a write.
ConnFailed(i) == ret[i] \in ReadErrors \cup {"FileError", "WriteError"}

\* C1 (as stated): once Shutdown has closed exitChan, no Accept succeeds and
\* no session is spawned.
C1_NoAcceptAfterMark ==
    [][exitChan = "closed" => nAccepted' = nAccepted]_vars

\* C1 (amended): once exitChan is closed, a Serve that is not inside Accept
\* never enters Accept again and accepts nothing; only the Accept it was
\* already committed to when the mark was set can still return a connection.
C1_NoNewAcceptAfterMark ==
    [][(exitChan = "closed" /\ servePc # "accept")
         => (servePc' # "accept" /\ nAccepted' = nAccepted)]_vars

\* C1 witness: Serve met the closed exitChan at loop top and returned nil
\* while a connection was still to come.
C1_Witness ==
    /\ exitChan = "closed"
    /\ servePc = "returned"
    /\ serveErr = Nil
    /\ nAccepted < NumConns

\* C2: with no connection failure and no shutdown, every connection holds
\* exactly the replies to its own client's requests, in request order, and a
\* session does not end before its client has its MaxReqs replies.
C2_EachClientGetsItsReplies ==
    \A i \in Conns :
        (exitChan = "open" /\ ~ConnFailed(i))
          => /\ Len(out[i]) <= MaxReqs
             /\ out[i] = RepliesTo(i, Len(out[i]))
             /\ (pc[i] = "done" => Len(out[i]) = MaxReqs)

\* C3: a dispatch error does not end the session: no ServeClient has
\* returned with the error Apply gave it.
C3_DispatchErrorKeepsSession ==
    \A i \in Conns : ~(pc[i] = "done" /\ ret[i] = "DispatchError")

\* C4 (as stated): a session that ended on a read failure wrote no error
\* line to its connection.
C4_ReadFailureWritesNothing ==
    \A i \in Conns :
        ret[i] \in ReadErrors
          => \A k \in 1..Len(out[i]) : out[i][k].kind # "errline"

\* C4 (amended): a read failure ends the session and closes the connection;
\* no reply is written for it, but the deferred function writes exactly one
\* error line, after the replies to the requests read before.
C4_ReadFailureWritesErrorLine ==
    \A i \in Conns :
        ret[i] \in ReadErrors
          => /\ pc[i] = "done"
             /\ closeCount[i] = 1
             /\ out[i] = Append(RepliesTo(i, nread[i]),
                                [kind |-> "errline", host |-> i, seq |-> 0])

\* C4 witness: a session answered one request and then failed to parse the
\* next one.
C4_Witness ==
    \E i \in Conns :
        /\ ret[i] = "ProtocolError"
        /\ nread[i] = 1
        /\ Len(out[i]) = 2

\* C5: calling Shutdown again does not crash the process.
C5_SecondShutdownHarmless == ~panicked

\* C6: a session has ended exactly when its connection was closed, once;
\* and after the close the session neither reads nor writes on it.
C6_EndClosesOnce ==
    /\ [](\A i \in Conns : closeCount[i] = IF pc[i] = "done" THEN 1 ELSE 0)
    /\ [][\A i \in Conns :
            closeCount[i] > 0
              => (out'[i] = out[i] /\ nread'[i] = nread[i] /\ pc'[i] = "done")]_vars

\* C6 witness: one session ended on the shutdown mark and another on an
\* error, each with its connection closed.
C6_Witness ==
    \E i, j \in Conns :
        /\ ret[i] = Nil /\ closeCount[i] = 1
        /\ ret[j] = "WriteError" /\ closeCount[j] = 1

C8_BlockedReadOutlivesMark ==
    [][\A i \in Conns :
         /\ (pc[i] = "read" /\ pc'[i] # "read")
              => \/ (pc'[i] = "apply" /\ nread'[i] = nread[i] + 1)
                 \/ (pc'[i] = "done" /\ ret'[i] \in ReadErrors)
         /\ (exitChan' # exitChan => pc'[i] = pc[i])]_vars

\* C8 witness: exitChan is closed while a session is blocked in its read.
C8_Witness ==
    \E i \in Conns : pc[i] = "read" /\ exitChan = "closed"

\* C9: the step in which one session ends with an error changes nothing of
\* the acceptor, of the server or of any other session.
C9_FailuresIsolated ==
    [][\A i \in Conns :
         (pc[i] # "done" /\ pc'[i] = "done" /\ ret'[i] # Nil)
           => /\ UNCHANGED acceptVars
              /\ UNCHANGED srvVars
              /\ \A j \in Conns \ {i} :
                    /\ pc'[j] = pc[j]
                    /\ clientAddr'[j] = clientAddr[j]
                    /\ request'[j] = request[j]
                    /\ reply'[j] = reply[j]
                    /\ nread'[j] = nread[j]
                    /\ out'[j] = out[j]
                    /\ ret'[j] = ret[j]
                    /\ closeCount'[j] = closeCount[j]]_vars

\* C9 witness: one session has ended with an error while the acceptor is in
\* Accept on an open listener and another session is writing its reply.
C9_Witness ==
    \E i, j \in Conns :
        /\ pc[i] = "done" /\ ret[i] \notin {Nil, Pending}
        /\ pc[j] = "write"
        /\ servePc = "accept"
        /\ listener = "open"

\* C10: whenever Serve has returned, the listener is closed.
C10_ServeReturnClosesListener ==
    servePc = "returned" => listener = "closed"

\* C10 witness: Serve returned an Accept error.
C10_Witness ==
    /\ servePc = "returned"
    /\ serveErr = "AcceptError"
    /\ listener = "closed"

\* The handler methods NewServer went through, by position.
HandlerMethods == {config.handler[k] : k \in 1..Len(config.handler)}

\* C11: the command table of the server NewServer returns has, for every
\* handler method with an adaptable signature, an entry under the method's
\* own name whose adapter calls that method; and the first-byte filter
\* passes over no exported name.
C11_TableHoldsEveryAdaptableMethod ==
    /\ \A k \in 1..Len(MethodPool) : ~MethodSkipped(MethodPool[k])
    /\ (newServerPc = "returned" /\ newServerRet.srv = "srv")
         => \A m \in HandlerMethods :
               m.adaptable => (m.name \in DOMAIN methods /\ methods[m.name] = m.name)

\* C11 witness: NewServer returned a server for a handler with at least two
\* methods, one of them with a non-ASCII first letter.
C11_Witness ==
    /\ newServerPc = "returned"
    /\ newServerRet.srv = "srv"
    /\ Len(config.handler) >= 2
    /\ "OMEGA" \in DOMAIN methods

\* C12: NewServer returns nil and an error exactly when some handler method
\* cannot be adapted, and it stops at the first such method; a server it
\* returns has every method of the handler in its command table.
C12_UnadaptableMethodFailsNewServer ==
    newServerPc = "returned"
      => /\ (newServerRet.srv = Nil) <=> (\E m \in HandlerMethods : ~m.adaptable)
         /\ newServerRet.srv = Nil
              => /\ newServerRet.err # Nil
                 /\ methodIdx < Len(config.handler)
                 /\ ~config.handler[methodIdx + 1].adaptable
                 /\ \A k \in 1..methodIdx : config.handler[k].adaptable
         /\ newServerRet.srv # Nil
              => /\ newServerRet = [srv |-> "srv", err |-> Nil]
                 /\ DOMAIN methods = {m.name : m \in HandlerMethods}

\* C12 witness: NewServer failed at the second method of a handler, after
\* registering the first.
C12_Witness ==
    /\ newServerPc = "returned"
    /\ newServerRet.srv = Nil
    /\ methodIdx = 1
    /\ Len(config.handler) >= 2

\* C13: when a session has a command dispatched, every channel ever
\* appended to MonitorChans, also one appended before Serve started, gets
\* an entry for it.
C13_EverySubscriberGetsEveryCommand ==
    [][\A i \in Conns :
         (pc[i] = "apply" /\ pc'[i] = "write" /\ reply'[i].kind = "ok")
           => \A c \in 1..subscribed : feed'[c] = feed[c] + 1]_vars

\* The number of writes of the given kind ("reply" or "errline") that
\* connection i has received.
CountIn(o, kind) == Cardinality({j \in DOMAIN o : o[j].kind = kind})

Count(i, kind) == CountIn(out[i], kind)

\* C14: in a session the requests read exceed the replies written by at
\* most one, and whenever the session is at the top of its loop or inside a
\* read every request read before has its reply written.
C14_NoPipelining ==
    \A i \in Conns :
      /\ nread[i] - Count(i, "reply") \in {0, 1}
      /\ pc[i] \in {"select", "read"} => nread[i] = Count(i, "reply")

\* C14 witness: a session is inside the read of its second request, and the
\* reply to the first is on the connection.
C14_Witness ==
    \E i \in Conns :
      /\ pc[i] = "read"
      /\ nread[i] = 1
      /\ out[i] = RepliesTo(i, 1)

\* C15: a step in which Serve returns gives nil exactly when it is taken
\* from the top of the loop with exitChan closed, and gives the Accept error
\* exactly when it is taken from inside Accept, whatever exitChan is.
C15_ServeResult ==
    [][(servePc # "returned" /\ servePc' = "returned")
         => /\ serveErr' = Nil <=> (servePc = "select" /\ exitChan = "closed")
            /\ serveErr' # Nil <=> servePc = "accept"
            /\ serveErr' \in {Nil, "AcceptError"}]_vars

\* C15 witness: Accept failed after Shutdown had closed exitChan, and Serve
\* returned the Accept error.
C15_Witness ==
    /\ servePc = "returned"
    /\ serveErr = "AcceptError"
    /\ exitChan = "closed"
    /\ nAccepted > 0

\* Session i ended with a failed read or a failed write.
TransportFailed(i) == ret[i] \in ReadErrors \cup {"WriteError"}

\* C16: a session that ended with a failed read or write stays ended: it
\* reads nothing, dispatches nothing and writes nothing more.  A Serve that
\* returned a failed Accept stays returned and accepts nothing more.
C16_NoRetry ==
    [][/\ \A i \in Conns :
            TransportFailed(i)
              => /\ pc'[i] = "done"
                 /\ nread'[i] = nread[i]
                 /\ out'[i] = out[i]
                 /\ ret'[i] = ret[i]
       /\ serveErr = "AcceptError"
            => /\ servePc' = "returned"
               /\ nAccepted' = nAccepted
               /\ serveErr' = serveErr]_vars

\* C16 witness: a session ended with a failed write while its client had
\* more requests to send and the server was not shutting down, and Serve
\* ended with a failed Accept while a connection was still to come.
C16_Witness ==
    /\ exitChan = "open"
    /\ serveErr = "AcceptError"
    /\ nAccepted < NumConns
    /\ \E i \in Conns : ret[i] = "WriteError" /\ nread[i] < MaxReqs

\* C17: a session that ended has the fallback error line on its connection
\* exactly when it ended with a non-nil error, and then once and as the
\* last write; a running session has none.  Nothing is written to a
\* connection that has been closed.
C17_ErrorLineIffError ==
    /\ [](\A i \in Conns :
            /\ Count(i, "errline") = IF ret[i] \in {Pending, Nil} THEN 0 ELSE 1
            /\ Count(i, "errline") = 1 => out[i][Len(out[i])].kind = "errline")
    /\ [][\A i \in Conns : out'[i] # out[i] => closeCount[i] = 0]_vars

\* C17 witness: one session ended with a dispatch error and has the line
\* after its earlier reply; another ended on the closed exitChan and has
\* its replies only.
C17_Witness ==
    \E i, j \in Conns :
      /\ ret[i] = "DispatchError"
      /\ Len(out[i]) = 2
      /\ out[i][2].kind = "errline"
      /\ closeCount[i] = 1
      /\ ret[j] = Nil
      /\ pc[j] = "done"
      /\ out[j] = RepliesTo(j, 1)

\* The reads a session at position p can still start without passing the
\* top of its loop, and the replies it can still write.
ReadsLeft(p) == IF p = "read" THEN 1 ELSE 0

WritesLeft(p) == IF p \in {"read", "apply", "write"} THEN 1 ELSE 0

\* C18 (as stated, last part): a session that starts after exitChan was
\* closed reads no request and writes nothing.
C18_LateSessionWritesNothing ==
    \A i \in Conns :
      []((exitChan = "closed" /\ pc[i] = "idle")
           => [](nread[i] = 0 /\ out[i] = <<>>))

\* C18 (amended): once exitChan is closed a session reads a request only
\* from the read it was already in and writes a reply only to the request
\* it was already reading or holding, so at most one of each; it does not
\* look at exitChan between that read and the write of the reply, so the
\* request is dispatched, and is answered unless the dispatch or the write
\* fails; a session not yet in its loop reads nothing and writes no reply.
C18_AtMostOneMoreAfterMark ==
    [][exitChan = "closed"
         => \A i \in Conns :
              /\ nread'[i] + ReadsLeft(pc'[i]) <= nread[i] + ReadsLeft(pc[i])
              /\ CountIn(out'[i], "reply") + WritesLeft(pc'[i])
                   <= CountIn(out[i], "reply") + WritesLeft(pc[i])
              /\ (pc[i] = "read" /\ nread'[i] # nread[i]) => pc'[i] = "apply"
              /\ (pc[i] = "apply" /\ pc'[i] # "apply")
                   => \/ pc'[i] = "write"
                      \/ ret'[i] = "DispatchError"
              /\ (pc[i] = "write" /\ pc'[i] # "write")
                   => \/ out'[i] = Append(out[i], Written(reply[i]))
                      \/ ret'[i] = "WriteError"
              /\ (pc[i] \in {"idle", "addr"} /\ out'[i] # out[i])
                   => ret'[i] = "FileError"]_vars

\* C18 witness: with exitChan closed a session holds the reply to the one
\* request it has read and is about to write it, while another session has
\* not started yet.
C18_Witness ==
    \E i, j \in Conns :
      /\ exitChan = "closed"
      /\ pc[i] = "write"
      /\ nread[i] = 1
      /\ out[i] = <<>>
      /\ pc[j] = "idle"
      /\ servePc = "accept"

\* The Accept calls Serve at position p can still complete without passing
\* the top of its loop.
AcceptsLeft(p) == IF p = "accept" THEN 1 ELSE 0

\* C19: once exitChan is closed the connections accepted, counting the
\* Accept Serve is inside, never grow: only that Accept can still return a
\* connection, and Serve enters no Accept after it.  Every accepted
\* connection has exactly one session, and no other session exists.
C19_AtMostOneMoreAccept ==
    /\ [][exitChan = "closed"
            => nAccepted' + AcceptsLeft(servePc') <= nAccepted + AcceptsLeft(servePc)]_vars
    /\ [](\A i \in Conns : pc[i] # "idle" <=> i <= nAccepted)

\* C19 witness: with exitChan closed Serve has returned nil, one session
\* was spawned and a further connection was never accepted.
C19_Witness ==
    /\ exitChan = "closed"
    /\ servePc = "returned"
    /\ serveErr = Nil
    /\ nAccepted = 1
    /\ pc[1] # "idle"
    /\ pc[NumConns] = "idle"

\* Serve and every session have ended, the listener and every accepted
\* connection are closed.
Terminated ==
    /\ servePc \in {"returned", "listenfailed"}
    /\ listener # "open"
    /\ \A i \in Conns : /\ pc[i] \in {"idle", "done"}
                        /\ pc[i] = "done" => closeCount[i] = 1

\* Shutdown is called at most once, every pending Accept returns and every
\* pending read of a request returns.
PeersCooperate ==
    /\ []~panicked
    /\ []<>(servePc # "accept")
    /\ \A i \in Conns : []<>(pc[i] # "read")

\* A session leaves a pending read only when the read returns: with a
\* request or with an error.
ReadEndsOnlyByReturn ==
    [][\A i \in Conns :
         (pc[i] = "read" /\ pc'[i] # "read")
           => \/ nread'[i] = nread[i] + 1 /\ pc'[i] = "apply"
              \/ ret'[i] \in ReadErrors /\ pc'[i] = "done"]_vars

====
